---------------------------- MODULE Spec2Model ----------------------------
(***************************************************************************)
(* Model of the bunny-bird game scene (src/src/game/scenes/Game.ts) and of  *)
(* the page shell that drives it (src/src/App.tsx).                         *)
(*                                                                         *)
(* The scene object is one record, `scene`; every method of the class is    *)
(* an operator from scene records to scene records, so that a handler that  *)
(* calls other methods is the composition of their operators.  The engine   *)
(* (Phaser) is the environment: it delivers input events, collision         *)
(* callbacks and frames.  A frame advances the clock (timer callbacks),     *)
(* moves the obstacles and calls update().                                  *)
(*                                                                         *)
(* Lengths are in hundredths of a pixel (Px), times in milliseconds and     *)
(* velocities in pixels per second, as in the source.                       *)
(***************************************************************************)
EXTENDS Integers, Sequences, FiniteSets, TLC

VARIABLES
    scene,      \* the Game scene object: its fields
    app,        \* the App component: its React state
    hist        \* history of the current run, read only by the properties

vars == <<scene, app, hist>>

---------------------------------------------------------------------------
(* Bounds of the model *)

\* obstacle pairs a run spawns while playing: a frame of a playing scene
\* whose spawn tick would exceed it is not taken
MaxPairs == 4

\* the score a run reaches while playing: a frame of a playing scene that
\* would score beyond it is not taken
MaxScore == 2

\* frame lengths the engine delivers, in ms
Deltas == {200}

\* values drawn for the random centre of a gap, in px, out of
\* Between(minY, maxY) = 160..375; no method reads an obstacle's y again
CenterYs == {267}

---------------------------------------------------------------------------
(* Program constants *)

gameWidth == 960
gameHeight == 540
hudTop == 90
hudBottom == 95
spawnPadding == 70
maxLives == 3
resumeDelay == 2500
blinkDelay == 140
flapVelocity == -320
pipeTextureWidth == 90
birdTextureWidth == 96
birdScalePercent == 95
spawnOffset == 80
despawnEdge == -20
snapMargin == 40

Px(n) == n * 100

Levels == {"easy", "medium", "hard"}

difficultySettings ==
    [ easy   |-> [gap |-> 280, spawnDelay |-> 1900, speed |-> -190],
      medium |-> [gap |-> 220, spawnDelay |-> 1650, speed |-> -220],
      hard   |-> [gap |-> 170, spawnDelay |-> 1350, speed |-> -255] ]

\* difficultySettings is an object literal: a lookup by a key it does not
\* own falls through to Object.prototype, whose members are truthy and have
\* no gap, spawnDelay or speed.
ObjectPrototypeKeys == {"constructor", "toString"}

\* the value read from a property that does not exist
undefined == 0

settingsLookup(level) ==
    IF level \in Levels
    THEN [truthy |-> TRUE, gap |-> difficultySettings[level].gap,
          spawnDelay |-> difficultySettings[level].spawnDelay,
          speed |-> difficultySettings[level].speed]
    ELSE [truthy |-> level \in ObjectPrototypeKeys, gap |-> undefined,
          spawnDelay |-> undefined, speed |-> undefined]

\* playBounds = Rectangle(0, hudTop, width, height - hudTop - hudBottom)
playBoundsX == Px(0)
playBoundsRight == Px(gameWidth)
playBoundsY == Px(hudTop)
playBoundsBottom == Px(gameHeight - hudBottom)

birdDisplayWidth == birdTextureWidth * birdScalePercent
pipeDisplayWidth == Px(pipeTextureWidth)
birdStartX == (Px(gameWidth) * 35) \div 100

Clamp(v, lo, hi) == IF v < lo THEN lo ELSE IF v > hi THEN hi ELSE v

---------------------------------------------------------------------------
(* Engine timers (Phaser.Time.TimerEvent) *)

NoTimer == [active |-> FALSE, delay |-> 0, elapsed |-> 0, paused |-> FALSE]

addEvent(delay) ==
    [active |-> TRUE, delay |-> delay, elapsed |-> 0, paused |-> FALSE]

Running(t) == t.active /\ ~t.paused

\* how often a looping timer's callback runs in a clock update of delta
LoopFires(t, delta) ==
    IF Running(t) THEN (t.elapsed + delta) \div t.delay ELSE 0

LoopAdvance(t, delta) ==
    IF Running(t) THEN [t EXCEPT !.elapsed = (t.elapsed + delta) % t.delay]
    ELSE t

\* whether a one-shot timer's callback runs in a clock update of delta
OnceFires(t, delta) == Running(t) /\ t.elapsed + delta >= t.delay

OnceAdvance(t, delta) ==
    IF Running(t) THEN [t EXCEPT !.elapsed = t.elapsed + delta] ELSE t

\* A field that holds a timer is assigned without remove() of the timer it
\* held: if that timer is still pending it stays in the clock, which goes on
\* running it (s.stale), with no reference left to remove it.
unreferenced(s, kind, t) ==
    IF t.active
    THEN [s EXCEPT !.stale = Append(s.stale, [kind |-> kind, timer |-> t])]
    ELSE s

---------------------------------------------------------------------------
(* Methods of the scene *)

\* setSpawnTimerPaused that never touches the timer
setSpawnTimerPaused_noop(s, paused) == s

setSpawnTimerPaused(s, paused) ==
    IF s.spawnTimer.active
    THEN [s EXCEPT !.spawnTimer.paused = paused]
    ELSE s

RECURSIVE SetVelocityX(_, _)
SetVelocityX(ps, v) ==
    IF ps = <<>> THEN <<>>
    ELSE <<[Head(ps) EXCEPT !.vx = v]>> \o SetVelocityX(Tail(ps), v)

pausePipes(s) == [s EXCEPT !.pipes = SetVelocityX(s.pipes, 0)]

\* resumePipes that leaves the obstacles standing
resumePipes_noop(s) == s

resumePipes(s) == [s EXCEPT !.pipes = SetVelocityX(s.pipes, s.pipeSpeed)]

startBlinking(s) == [s EXCEPT !.blinkEvent = addEvent(blinkDelay)]

\* stopBlinking that leaves the blink timer in place
stopBlinking_keepsEvent(s) == [s EXCEPT !.birdVisible = TRUE]

stopBlinking(s) == [s EXCEPT !.blinkEvent = NoTimer, !.birdVisible = TRUE]

clearInvulnerability(s) ==
    setSpawnTimerPaused(
        [stopBlinking(s) EXCEPT !.invulnerabilityTimer = NoTimer,
                                !.invulnerable = FALSE,
                                !.birdVisible = TRUE],
        FALSE)

updateDifficultyButtonsVisibility(s) ==
    [s EXCEPT !.buttonsVisible = (s.state # "playing" /\ s.state # "resuming")]

\* resetScene that leaves the group as it is
resetScene_keepsPipes(s) ==
    LET a == clearInvulnerability(
                 [s EXCEPT !.state = "ready", !.score = 0, !.lives = maxLives])
        b == [a EXCEPT !.spawnTimer = NoTimer,
                       !.birdX = birdStartX,
                       !.birdVy = 0,
                       !.allowGravity = FALSE]
    IN  updateDifficultyButtonsVisibility(b)

\* resetScene that clears its timer fields without remove()
resetScene_dropsTimers(s) ==
    LET a == [s EXCEPT !.state = "ready", !.score = 0, !.lives = maxLives]
        b == unreferenced(
                 unreferenced(
                     unreferenced(a, "spawn", a.spawnTimer),
                     "blink", a.blinkEvent),
                 "resume", a.invulnerabilityTimer)
        c == [b EXCEPT !.spawnTimer = NoTimer,
                       !.blinkEvent = NoTimer,
                       !.invulnerabilityTimer = NoTimer,
                       !.invulnerable = FALSE,
                       !.birdVisible = TRUE,
                       !.pipes = <<>>,
                       !.birdX = birdStartX,
                       !.birdVy = 0,
                       !.allowGravity = FALSE]
    IN  updateDifficultyButtonsVisibility(c)

resetScene(s) ==
    LET a == clearInvulnerability(
                 [s EXCEPT !.state = "ready", !.score = 0, !.lives = maxLives])
        b == [a EXCEPT !.spawnTimer = NoTimer,
                       !.pipes = <<>>,
                       !.birdX = birdStartX,
                       !.birdVy = 0,
                       !.allowGravity = FALSE]
    IN  updateDifficultyButtonsVisibility(b)

createPipe(s, x, y, isTop) ==
    [s EXCEPT !.pipes = Append(s.pipes,
        [x |-> x, y |-> y, isTop |-> isTop, scored |-> FALSE, vx |-> s.pipeSpeed])]

spawnPipes(s, centerY) ==
    IF s.state # "playing" THEN s
    ELSE LET pipeX == Px(gameWidth) + Px(spawnOffset)
             half == Px(s.gapSize) \div 2
             a == createPipe(s, pipeX, Px(centerY) - half, TRUE)
             b == createPipe(a, pipeX, Px(centerY) + half, FALSE)
         IN  [b EXCEPT !.spawned = s.spawned + 1]

startRun(s, centerY) ==
    LET a == updateDifficultyButtonsVisibility([s EXCEPT !.state = "playing"])
        b == [unreferenced(a, "spawn", a.spawnTimer)
                 EXCEPT !.allowGravity = TRUE,
                        !.spawnTimer = addEvent(s.spawnDelay),
                        !.spawned = 0]
    IN  spawnPipes(b, centerY)

\* handleFlap that applies the impulse in every state
handleFlap_ungated(s, centerY) ==
    LET a == IF s.state = "gameover" THEN startRun(resetScene(s), centerY)
             ELSE IF s.state = "ready" THEN startRun(s, centerY)
             ELSE s
    IN  [a EXCEPT !.birdVy = flapVelocity]

\* handleFlap that starts the run on top of the finished one
handleFlap_noReset(s, centerY) ==
    LET a == IF s.state = "gameover" \/ s.state = "ready" THEN startRun(s, centerY)
             ELSE s
    IN  IF a.state # "playing" THEN a
        ELSE [a EXCEPT !.birdVy = flapVelocity]

handleFlap(s, centerY) ==
    LET a == IF s.state = "gameover" THEN startRun(resetScene(s), centerY)
             ELSE IF s.state = "ready" THEN startRun(s, centerY)
             ELSE s
    IN  IF a.state # "playing" THEN a
        ELSE [a EXCEPT !.birdVy = flapVelocity]

triggerFlapFromUI(s, centerY) == handleFlap(s, centerY)

\* setDifficulty that does not reset the scene
setDifficulty_noReset(s, level) ==
    IF ~settingsLookup(level).truthy \/ s.difficulty = level THEN s
    ELSE LET settings == settingsLookup(level)
         IN  [s EXCEPT !.difficulty = level,
                       !.pipeSpeed = settings.speed,
                       !.gapSize = settings.gap,
                       !.spawnDelay = settings.spawnDelay]

\* setDifficulty that forgets the gap
setDifficulty_staleGap(s, level) ==
    IF ~settingsLookup(level).truthy \/ s.difficulty = level THEN s
    ELSE LET settings == settingsLookup(level)
         IN  resetScene([s EXCEPT !.difficulty = level,
                                  !.pipeSpeed = settings.speed,
                                  !.spawnDelay = settings.spawnDelay])

setDifficulty(s, level) ==
    IF ~settingsLookup(level).truthy \/ s.difficulty = level THEN s
    ELSE LET settings == settingsLookup(level)
         IN  resetScene([s EXCEPT !.difficulty = level,
                                  !.pipeSpeed = settings.speed,
                                  !.gapSize = settings.gap,
                                  !.spawnDelay = settings.spawnDelay])

handleDifficultyButtonPress(s, level) ==
    IF s.state = "playing" \/ s.state = "resuming" THEN s
    ELSE setDifficulty(s, level)

\* incrementScore that leaves the best score alone
incrementScore_noBest(s) == [s EXCEPT !.score = s.score + 1]

\* incrementScore that adds two
incrementScore_byTwo(s) ==
    LET a == [s EXCEPT !.score = s.score + 2]
    IN  IF a.score > a.best THEN [a EXCEPT !.best = a.score] ELSE a

incrementScore(s) ==
    LET a == [s EXCEPT !.score = s.score + 1]
    IN  IF a.score > a.best THEN [a EXCEPT !.best = a.score] ELSE a

\* pipes.children.each over a copy of the group (todo); kept is the group
\* as the callback leaves it
RECURSIVE managePipesEach(_, _, _)
managePipesEach(s, todo, kept) ==
    IF todo = <<>> THEN [s EXCEPT !.pipes = kept]
    ELSE LET pipe == Head(todo)
             rightEdge == pipe.x + (pipeDisplayWidth \div 2)
         IN  IF rightEdge < Px(despawnEdge)
             THEN managePipesEach(s, Tail(todo), kept)
             ELSE IF s.state = "playing" /\ pipe.isTop /\ ~pipe.scored
                     /\ rightEdge < s.birdX
             THEN managePipesEach(incrementScore(s), Tail(todo),
                                  Append(kept, [pipe EXCEPT !.scored = TRUE]))
             ELSE managePipesEach(s, Tail(todo), Append(kept, pipe))

\* managePipes that does not read the scored flag
RECURSIVE managePipesEach_recount(_, _, _)
managePipesEach_recount(s, todo, kept) ==
    IF todo = <<>> THEN [s EXCEPT !.pipes = kept]
    ELSE LET pipe == Head(todo)
             rightEdge == pipe.x + (pipeDisplayWidth \div 2)
         IN  IF rightEdge < Px(despawnEdge)
             THEN managePipesEach_recount(s, Tail(todo), kept)
             ELSE IF s.state = "playing" /\ pipe.isTop /\ rightEdge < s.birdX
             THEN managePipesEach_recount(incrementScore(s), Tail(todo),
                                          Append(kept, [pipe EXCEPT !.scored = TRUE]))
             ELSE managePipesEach_recount(s, Tail(todo), Append(kept, pipe))

managePipes_recount(s) == managePipesEach_recount(s, s.pipes, <<>>)

managePipes(s) == managePipesEach(s, s.pipes, <<>>)

update(s) ==
    IF s.state = "ready" THEN s
    ELSE IF s.state # "playing" THEN s
    ELSE managePipes(s)

\* enterGameOver that leaves the spawn timer running
enterGameOver_keepsTimer(s) ==
    pausePipes(updateDifficultyButtonsVisibility([s EXCEPT !.state = "gameover"]))

enterGameOver(s) ==
    LET a == updateDifficultyButtonsVisibility([s EXCEPT !.state = "gameover"])
    IN  pausePipes([a EXCEPT !.spawnTimer = NoTimer])

\* handleLifeLost that leaves the spawn timer running
handleLifeLost_noPause(s, hit) ==
    LET a == updateDifficultyButtonsVisibility([s EXCEPT !.state = "resuming"])
        b == [a EXCEPT !.invulnerable = TRUE,
                       !.birdVy = 0,
                       !.allowGravity = FALSE,
                       !.birdVisible = TRUE]
        pipeLeft == s.pipes[hit].x - (pipeDisplayWidth \div 2)
        targetX == pipeLeft - ((birdDisplayWidth * 6) \div 10)
        c == IF hit # 0
             THEN [b EXCEPT !.birdX = Clamp(targetX, playBoundsX + Px(snapMargin),
                                            playBoundsRight - Px(snapMargin))]
             ELSE b
        d == startBlinking(pausePipes(c))
    IN  [d EXCEPT !.invulnerabilityTimer = addEvent(resumeDelay)]

\* hit is the index of the collided pipe in the group, 0 for none
handleLifeLost(s, hit) ==
    LET a == updateDifficultyButtonsVisibility([s EXCEPT !.state = "resuming"])
        b == [a EXCEPT !.invulnerable = TRUE,
                       !.birdVy = 0,
                       !.allowGravity = FALSE,
                       !.birdVisible = TRUE]
        pipeLeft == s.pipes[hit].x - (pipeDisplayWidth \div 2)
        targetX == pipeLeft - ((birdDisplayWidth * 6) \div 10)
        c == IF hit # 0
             THEN [b EXCEPT !.birdX = Clamp(targetX, playBoundsX + Px(snapMargin),
                                            playBoundsRight - Px(snapMargin))]
             ELSE b
        d == startBlinking(setSpawnTimerPaused(pausePipes(c), TRUE))
    IN  [d EXCEPT !.invulnerabilityTimer = addEvent(resumeDelay)]

\* handleBirdCollision that ends the run one collision late
handleBirdCollision_lateGameover(s, hit) ==
    IF s.state # "playing" \/ s.invulnerable THEN s
    ELSE LET a == [s EXCEPT !.lives = s.lives - 1]
         IN  IF a.lives < 0 THEN enterGameOver(a)
             ELSE handleLifeLost(a, hit)

\* handleBirdCollision that returns early only in gameover
handleBirdCollision_onlyGameover(s, hit) ==
    IF s.state = "gameover" THEN s
    ELSE LET a == [s EXCEPT !.lives = s.lives - 1]
         IN  IF a.lives <= 0 THEN enterGameOver(a)
             ELSE handleLifeLost(a, hit)

handleBirdCollision(s, hit) ==
    IF s.state # "playing" \/ s.invulnerable THEN s
    ELSE LET a == [s EXCEPT !.lives = s.lives - 1]
         IN  IF a.lives <= 0 THEN enterGameOver(a)
             ELSE handleLifeLost(a, hit)

\* resumeFromLifeLoss that leaves the spawn timer paused
resumeFromLifeLoss_keepsPaused(s) ==
    LET a == stopBlinking([s EXCEPT !.invulnerabilityTimer = NoTimer])
        b == [a EXCEPT !.allowGravity = TRUE, !.birdVy = 0, !.birdVisible = TRUE]
        c == resumePipes(b)
    IN  updateDifficultyButtonsVisibility(
            [c EXCEPT !.invulnerable = FALSE, !.state = "playing"])

resumeFromLifeLoss(s) ==
    LET a == stopBlinking(
                 [unreferenced(s, "resume", s.invulnerabilityTimer)
                     EXCEPT !.invulnerabilityTimer = NoTimer])
        b == [a EXCEPT !.allowGravity = TRUE, !.birdVy = 0, !.birdVisible = TRUE]
        c == setSpawnTimerPaused(resumePipes(b), FALSE)
    IN  updateDifficultyButtonsVisibility(
            [c EXCEPT !.invulnerable = FALSE, !.state = "playing"])

---------------------------------------------------------------------------
(* The engine's frame *)

\* Clock.update: the timers in the order they were added (spawn, blink,
\* resume); a paused timer is skipped
RECURSIVE RepeatSpawn(_, _, _)
RepeatSpawn(s, n, centerY) ==
    IF n = 0 THEN s ELSE RepeatSpawn(spawnPipes(s, centerY), n - 1, centerY)

clockSpawn(s, delta, centerY) ==
    RepeatSpawn([s EXCEPT !.spawnTimer = LoopAdvance(s.spawnTimer, delta)],
                LoopFires(s.spawnTimer, delta), centerY)

clockBlink(s, delta) ==
    LET n == LoopFires(s.blinkEvent, delta)
    IN  [s EXCEPT !.blinkEvent = LoopAdvance(s.blinkEvent, delta),
                  !.birdVisible = IF n % 2 = 1 THEN ~s.birdVisible
                                  ELSE s.birdVisible]

\* a one-shot timer that fires has expired when its callback runs
clockResume(s, delta) ==
    IF OnceFires(s.invulnerabilityTimer, delta)
    THEN resumeFromLifeLoss([s EXCEPT !.invulnerabilityTimer.active = FALSE])
    ELSE [s EXCEPT !.invulnerabilityTimer =
                       OnceAdvance(s.invulnerabilityTimer, delta)]

\* the pending timers no field refers to: their callbacks run all the same
RECURSIVE clockStale(_, _, _, _)
clockStale(s, todo, delta, centerY) ==
    IF todo = <<>> THEN s
    ELSE LET e == Head(todo)
             looped == [e EXCEPT !.timer = LoopAdvance(e.timer, delta)]
             n == LoopFires(e.timer, delta)
             r == IF e.kind = "spawn"
                  THEN RepeatSpawn([s EXCEPT !.stale = Append(s.stale, looped)],
                                   n, centerY)
                  ELSE IF e.kind = "blink"
                  THEN [s EXCEPT !.stale = Append(s.stale, looped),
                                 !.birdVisible = IF n % 2 = 1 THEN ~s.birdVisible
                                                 ELSE s.birdVisible]
                  ELSE IF OnceFires(e.timer, delta)
                  THEN resumeFromLifeLoss(s)
                  ELSE [s EXCEPT !.stale = Append(s.stale,
                            [e EXCEPT !.timer = OnceAdvance(e.timer, delta)])]
         IN  clockStale(r, Tail(todo), delta, centerY)

clockUpdate(s, delta, centerY) ==
    LET a == clockStale([s EXCEPT !.stale = <<>>], s.stale, delta, centerY)
    IN  clockResume(clockBlink(clockSpawn(a, delta, centerY), delta), delta)

\* the physics step: every body moves by its velocity
RECURSIVE MoveBodies(_, _)
MoveBodies(ps, delta) ==
    IF ps = <<>> THEN <<>>
    ELSE <<[Head(ps) EXCEPT !.x = Head(ps).x + ((Head(ps).vx * delta) \div 10)]>>
             \o MoveBodies(Tail(ps), delta)

physicsStep(s, delta) == [s EXCEPT !.pipes = MoveBodies(s.pipes, delta)]

frame(s, delta, centerY) ==
    update(physicsStep(clockUpdate(s, delta, centerY), delta))

\* the bird's and a pipe's bodies share some x
OverlapsX(s, i) ==
    LET pipe == s.pipes[i]
    IN  /\ pipe.x - (pipeDisplayWidth \div 2) <= s.birdX + (birdDisplayWidth \div 2)
        /\ pipe.x + (pipeDisplayWidth \div 2) >= s.birdX - (birdDisplayWidth \div 2)

---------------------------------------------------------------------------
(* The App component *)

\* handleSceneReady: setActiveScene(scene); scene.setDifficulty(difficulty)
handleSceneReady(a, s) ==
    [app |-> [a EXCEPT !.activeScene = TRUE],
     scene |-> setDifficulty(s, a.difficulty)]

\* changeDifficulty: setDifficulty(level); activeScene?.setDifficulty(level)
changeDifficulty(a, s, level) ==
    [app |-> [a EXCEPT !.difficulty = level],
     scene |-> IF a.activeScene THEN setDifficulty(s, level) ELSE s]

---------------------------------------------------------------------------
(* State machine *)

InitScene ==
    resetScene(
        [state |-> "ready", score |-> 0, best |-> 0, lives |-> maxLives,
         invulnerable |-> FALSE, difficulty |-> "medium",
         pipeSpeed |-> difficultySettings["medium"].speed,
         gapSize |-> difficultySettings["medium"].gap,
         spawnDelay |-> difficultySettings["medium"].spawnDelay,
         spawnTimer |-> NoTimer, blinkEvent |-> NoTimer,
         invulnerabilityTimer |-> NoTimer, pipes |-> <<>>,
         birdX |-> birdStartX, birdVy |-> 0, birdVisible |-> TRUE,
         allowGravity |-> FALSE, buttonsVisible |-> TRUE, spawned |-> 0,
         stale |-> <<>>])

InitApp == [activeScene |-> FALSE, difficulty |-> "medium"]

InitHist == [playTime |-> 0, entryLives |-> maxLives, entryScore |-> 0]

Init ==
    /\ scene = InitScene
    /\ app = InitApp
    /\ hist = InitHist

\* the history after a step of the scene from s to r that took delta ms
\* of engine time: the time the run has spent playing, and the lives and
\* score with which the scene entered resuming (while it is resuming)
Record(s, r, delta) ==
    LET started == r.state = "playing" /\ s.state \in {"ready", "gameover"}
        entered == r.state = "resuming" /\ s.state # "resuming"
    IN  [playTime |-> IF started \/ r.state = "ready" THEN 0
                      ELSE IF s.state = "playing" THEN hist.playTime + delta
                      ELSE hist.playTime,
         entryLives |-> IF r.state # "resuming" THEN maxLives
                        ELSE IF entered THEN r.lives ELSE hist.entryLives,
         entryScore |-> IF r.state # "resuming" THEN 0
                        ELSE IF entered THEN r.score ELSE hist.entryScore]

Step(r) ==
    /\ scene' = r
    /\ hist' = Record(scene, r, 0)
    /\ UNCHANGED app

\* pointer press on the canvas outside the difficulty buttons, or SPACE
Flap ==
    /\ app.activeScene
    /\ \E centerY \in CenterYs : Step(handleFlap(scene, centerY))

\* App's touchstart listener
TouchFlap ==
    /\ app.activeScene
    /\ \E centerY \in CenterYs : Step(triggerFlapFromUI(scene, centerY))

\* pointer press on an in-canvas difficulty button: the button's listener
\* and the scene-wide pointerdown listener both run, in either order
PressDifficultyButton ==
    /\ app.activeScene
    /\ \E level \in Levels, centerY \in CenterYs, flapFirst \in BOOLEAN :
           Step(IF flapFirst
                THEN handleDifficultyButtonPress(handleFlap(scene, centerY), level)
                ELSE handleFlap(handleDifficultyButtonPress(scene, level), centerY))

\* create() ends by emitting current-scene-ready, which App handles before
\* the engine delivers any input or frame
SceneReady ==
    /\ ~app.activeScene
    /\ LET r == handleSceneReady(app, scene)
       IN  /\ scene' = r.scene
           /\ app' = r.app
           /\ hist' = Record(scene, r.scene, 0)

\* click on a page-level difficulty button
ChangeDifficulty ==
    /\ app.activeScene
    /\ \E level \in Levels :
           LET r == changeDifficulty(app, scene, level)
           IN  /\ scene' = r.scene
               /\ app' = r.app
               /\ hist' = Record(scene, r.scene, 0)

\* the collider's callback onBirdHit
BirdHitsPipe ==
    /\ app.activeScene
    /\ \E i \in 1..Len(scene.pipes) :
           /\ OverlapsX(scene, i)
           /\ Step(handleBirdCollision(scene, i))

\* the worldbounds event: handleWorldBounds
BirdHitsWorldBounds ==
    /\ app.activeScene
    /\ Step(handleBirdCollision(scene, 0))

\* the frame r is within the bounds of the model
Bounded(s, r) ==
    s.state = "playing" => r.spawned <= MaxPairs /\ r.score <= MaxScore

Frame ==
    /\ app.activeScene
    /\ \E delta \in Deltas, centerY \in CenterYs :
           LET r == frame(scene, delta, centerY)
           IN  /\ Bounded(scene, r)
               /\ scene' = r
               /\ hist' = Record(scene, r, delta)
               /\ UNCHANGED app

Next ==
    \/ SceneReady
    \/ Flap
    \/ TouchFlap
    \/ PressDifficultyButton
    \/ ChangeDifficulty
    \/ BirdHitsPipe
    \/ BirdHitsWorldBounds
    \/ Frame

Spec == Init /\ [][Next]_vars

\* A call of the public setter by a caller outside the typed code, with
\* any string.  Once the difficulty is no level, only the setter is
\* followed further.
AnyLevels == Levels \cup ObjectPrototypeKeys \cup {"insane"}

CallSetDifficulty ==
    /\ app.activeScene
    /\ \E level \in AnyLevels : Step(setDifficulty(scene, level))

Typed == scene.difficulty \in Levels /\ Next

NextApi ==
    \/ Typed
    \/ CallSetDifficulty

SpecApi == Init /\ [][NextApi]_vars

\* The canvas alone, and no input while the scene is resuming: the page's
\* buttons and touch listener are not used, and in resuming only frames and
\* collision callbacks arrive.  The engine's frame loop never stops
\* (FrameFair).
AutoFlap == scene.state # "resuming" /\ Flap

AutoPress == scene.state # "resuming" /\ PressDifficultyButton

NextAuto ==
    \/ SceneReady
    \/ AutoFlap
    \/ AutoPress
    \/ BirdHitsPipe
    \/ BirdHitsWorldBounds
    \/ Frame

\* ENABLED <<Frame>>_vars, written as a state predicate
FrameEnabled ==
    /\ app.activeScene
    /\ \E delta \in Deltas, centerY \in CenterYs :
           LET r == frame(scene, delta, centerY)
           IN  /\ Bounded(scene, r)
               /\ <<r, app, Record(scene, r, delta)>> # vars

\* weak fairness of Frame, WF_vars(Frame), with ENABLED written out
FrameFair == ([]<>~FrameEnabled) \/ ([]<><<Frame>>_vars)

AutoSpec == Init /\ [][NextAuto]_vars /\ FrameFair

---------------------------------------------------------------------------
(* Steps, as the properties name them *)

Hits(s) == 0..Len(s.pipes)

IsCollisionStep == \E hit \in Hits(scene) : scene' = handleBirdCollision(scene, hit)

IsFrameStep ==
    \E delta \in Deltas, centerY \in CenterYs : scene' = frame(scene, delta, centerY)

\* the scene as resetScene leaves it, or as resetScene and startRun leave it
Fresh(s) ==
    /\ s.score = 0 /\ s.lives = maxLives /\ ~s.invulnerable
    /\ s.birdX = birdStartX
    /\ \/ s.state = "ready" /\ s.pipes = <<>> /\ ~s.spawnTimer.active
       \/ /\ s.state = "playing" /\ Len(s.pipes) = 2 /\ s.spawned = 1
          /\ s.spawnTimer.active /\ s.spawnTimer.elapsed = 0

RightEdge(pipe) == pipe.x + (pipeDisplayWidth \div 2)

ScoredTops(s) == {i \in 1..Len(s.pipes) : s.pipes[i].isTop /\ s.pipes[i].scored}

\* pairs of the run that left the group
RemovedPairs(s) == s.spawned - (Len(s.pipes) \div 2)

---------------------------------------------------------------------------
(* C1 *)

\* C1: a collision callback taken while playing and not invulnerable costs
\* exactly one life; when that was the last life the same step enters
\* gameover and removes the spawn timer; and as long as the scene stays in
\* gameover no obstacle pair is created.
C1_CollisionCostsOneLife ==
    [][ /\ (scene.state = "playing" /\ ~scene.invulnerable /\ IsCollisionStep)
           => /\ scene'.lives = scene.lives - 1
              /\ scene'.lives = 0
                   => scene'.state = "gameover" /\ ~scene'.spawnTimer.active
        /\ (scene.state = "gameover" /\ scene'.state = "gameover")
           => /\ scene'.spawned = scene.spawned
              /\ scene'.pipes = scene.pipes
              /\ ~scene'.spawnTimer.active ]_vars

\* the last life was lost, obstacles of the run are still there and frames
\* have passed in gameover without a spawn
C1_Witness ==
    /\ scene.state = "gameover" /\ scene.lives = 0
    /\ scene.spawned = 2 /\ Len(scene.pipes) = 4
    /\ ~scene.spawnTimer.active

---------------------------------------------------------------------------
(* C2 *)

\* C2: while the scene is resuming, a collision callback (for any pipe or
\* for the world bounds) and a spawn-timer callback leave the scene as it
\* is, and no collision or frame step taken in resuming creates a pair or
\* changes lives.
C2_ResumingIsInert ==
    [][ scene.state = "resuming"
        => /\ \A hit \in Hits(scene) : handleBirdCollision(scene, hit) = scene
           /\ \A centerY \in CenterYs : spawnPipes(scene, centerY) = scene
           /\ (IsCollisionStep \/ IsFrameStep)
                => /\ scene'.lives = scene.lives
                   /\ scene'.spawned = scene.spawned
                   /\ Len(scene'.pipes) <= Len(scene.pipes) ]_vars

\* frames have passed in resuming, with an obstacle still overlapping the
\* bird (a second callback for it is delivered)
C2_Witness ==
    /\ scene.state = "resuming"
    /\ scene.invulnerabilityTimer.elapsed > 0
    /\ \E i \in 1..Len(scene.pipes) : OverlapsX(scene, i)

---------------------------------------------------------------------------
(* C3 *)

\* C3: the score changes in a step only by +1 in a frame whose update()
\* runs in state playing, or to 0 in a step that resets the scene.
C3_ScoreChanges ==
    [][ scene'.score # scene.score
        => \/ /\ scene'.score = scene.score + 1
              /\ IsFrameStep
              /\ scene'.state = "playing"
           \/ /\ scene'.score = 0
              /\ Fresh(scene') ]_vars

\* a second obstacle has been passed in the run
C3_Witness ==
    scene.state = "playing" /\ scene.score = 2 /\ scene.lives = 2

---------------------------------------------------------------------------
(* C4 *)

\* C4: the score of the run is at most the number of top obstacles of the
\* group with the scored flag set plus the pairs that left the group, and
\* so at most the number of pairs spawned in the run.
C4_ScoreAtMostOncePerPair ==
    /\ scene.score <= Cardinality(ScoredTops(scene)) + RemovedPairs(scene)
    /\ Cardinality(ScoredTops(scene)) + RemovedPairs(scene) <= scene.spawned
    /\ scene.score <= scene.spawned

\* after a life loss the bird was snapped back to the left of an obstacle
\* that was already scored, and the run goes on
C4_Witness ==
    /\ scene.state = "playing"
    /\ scene.lives < maxLives
    /\ scene.score = 1
    /\ \E i \in ScoredTops(scene) : RightEdge(scene.pipes[i]) >= scene.birdX

---------------------------------------------------------------------------
(* C5 *)

\* C5 as stated: a non-empty obstacle set implies state playing.
C5_Original ==
    scene.pipes # <<>> => scene.state = "playing"

\* C5, amended: obstacles exist only in a run or its gameover screen: in
\* state ready the obstacle set is empty.
C5_NoObstaclesInReady ==
    scene.state = "ready" => scene.pipes = <<>>

\* the scene was reset out of a run that had obstacles
C5_Witness ==
    /\ scene.state = "ready"
    /\ scene.spawned >= 2
    /\ scene.best >= 1

---------------------------------------------------------------------------
(* C6 *)

\* the tunables of s are those of level d
TunablesOf(s, d) ==
    /\ s.difficulty = d
    /\ s.gapSize = difficultySettings[d].gap
    /\ s.pipeSpeed = difficultySettings[d].speed
    /\ s.spawnDelay = difficultySettings[d].spawnDelay

\* every pair of the group has d's gap and moves at d's speed or stands,
\* and the spawn timer, if any, has d's delay
PairsOf(s, d) ==
    /\ Len(s.pipes) % 2 = 0
    /\ \A k \in 1..(Len(s.pipes) \div 2) :
          /\ s.pipes[2 * k - 1].isTop /\ ~s.pipes[2 * k].isTop
          /\ s.pipes[2 * k].y - s.pipes[2 * k - 1].y = Px(difficultySettings[d].gap)
          /\ s.pipes[2 * k].vx \in {0, difficultySettings[d].speed}
          /\ s.pipes[2 * k - 1].vx = s.pipes[2 * k].vx
    /\ s.spawnTimer.active => s.spawnTimer.delay = difficultySettings[d].spawnDelay

\* what setDifficulty(d) leaves outside a run, but for score and lives
SetOutsideRun(d) ==
    LET r == setDifficulty(scene, d)
    IN  /\ TunablesOf(r, d)
        /\ PairsOf(r, d)
        /\ \A centerY \in CenterYs :
              LET f == handleFlap(r, centerY)
              IN  f.spawned = 1 /\ Len(f.pipes) = 2 /\ PairsOf(f, d)

\* C6 as stated: outside a run, setDifficulty(d) leaves score 0 and lives 3
\* for every d, the selected one included, and spawns use d's settings.
C6_Original ==
    scene.state \in {"ready", "gameover"}
    => \A d \in Levels :
         /\ setDifficulty(scene, d).score = 0
         /\ setDifficulty(scene, d).lives = maxLives
         /\ SetOutsideRun(d)

\* C6, amended: outside a run, setDifficulty(d) makes d the difficulty and
\* the pairs spawned from then on use d's gap, speed and interval; score 0
\* and lives 3 hold at once when d is not the selected difficulty or the
\* state is ready.  In every state the pairs and the spawn timer of the
\* scene are those of its difficulty.
C6_SetDifficultyOutsideRun ==
    /\ TunablesOf(scene, scene.difficulty)
    /\ PairsOf(scene, scene.difficulty)
    /\ scene.state \in {"ready", "gameover"}
       => \A d \in Levels :
            /\ SetOutsideRun(d)
            /\ (d # scene.difficulty \/ scene.state = "ready")
               => /\ setDifficulty(scene, d).score = 0
                  /\ setDifficulty(scene, d).lives = maxLives

\* hard was selected on the canvas (the page still shows medium), which
\* only happens outside a run, and the run that followed has spawned twice
C6_Witness ==
    /\ scene.difficulty = "hard" /\ app.difficulty = "medium"
    /\ scene.state = "playing"
    /\ scene.spawned = 2 /\ Len(scene.pipes) = 4

---------------------------------------------------------------------------
(* C7 *)

\* C7: a step that is setDifficulty(level), with level the selected
\* difficulty or no level at all, leaves the scene as it is.
C7_SetDifficultyNoOp ==
    [][ \A level \in AnyLevels :
          ( /\ level = scene.difficulty \/ level \notin Levels
            /\ scene' = setDifficulty(scene, level) )
          => scene' = scene ]_vars

---------------------------------------------------------------------------
(* C8 *)

\* C8: a selection made in playing or resuming, on the canvas or on the
\* page, changes neither the difficulty nor the run.
C8_SelectionDisabledInRun ==
    [][ ( /\ scene.state \in {"playing", "resuming"}
          /\ ChangeDifficulty \/ PressDifficultyButton )
        => /\ scene'.difficulty = scene.difficulty
           /\ scene'.state = scene.state
           /\ scene'.score = scene.score
           /\ scene'.lives = scene.lives
           /\ scene'.pipes = scene.pipes ]_vars

---------------------------------------------------------------------------
(* C9 *)

\* the scene is back in the run it left with the lives and score of h
Resumed(r, h) ==
    /\ r.state = "playing"
    /\ ~r.invulnerable
    /\ r.lives = h.entryLives
    /\ r.allowGravity
    /\ r.spawnTimer.active /\ ~r.spawnTimer.paused
    /\ ~r.invulnerabilityTimer.active /\ ~r.blinkEvent.active
    /\ r.pipes # <<>>
    /\ \A i \in 1..Len(r.pipes) : r.pipes[i].vx = r.pipeSpeed

\* C9: with no input, a resuming scene holds the resume timer, which the
\* clock alone advances; the clock update that brings it to the resume
\* delay returns the scene to playing with the lives and score it had on
\* entry, gravity on, the spawn timer running and the obstacles moving;
\* no other step leaves resuming; and resuming always ends in playing.
C9_ResumeReturnsToRun ==
    /\ [][ scene.state = "resuming"
            => /\ Running(scene.invulnerabilityTimer)
               /\ scene.invulnerabilityTimer.delay = resumeDelay
               /\ scene.invulnerabilityTimer.elapsed < resumeDelay
               /\ scene.lives = hist.entryLives
               /\ scene.score = hist.entryScore
               /\ \A delta \in Deltas, centerY \in CenterYs :
                     LET r == clockUpdate(scene, delta, centerY)
                     IN  IF scene.invulnerabilityTimer.elapsed + delta >= resumeDelay
                         THEN Resumed(r, hist) /\ r.score = hist.entryScore
                         ELSE r.state = "resuming"
               /\ scene'.state # "resuming"
                    => IsFrameStep /\ Resumed(scene', hist) ]_vars
    /\ (scene.state = "resuming") ~> (scene.state = "playing")

\* the run goes on after its second life loss
C9_Witness ==
    /\ scene.state = "playing"
    /\ scene.lives = 1
    /\ ~scene.invulnerable
    /\ Running(scene.spawnTimer)
    /\ scene.pipes # <<>>
    /\ \A i \in 1..Len(scene.pipes) : scene.pipes[i].vx = scene.pipeSpeed

---------------------------------------------------------------------------
(* C10 *)

InRun(s) == s.state \in {"playing", "resuming"}

\* C10: a flap in ready enters playing with exactly one pair and a spawn
\* timer of the difficulty's delay; in a run the pairs spawned are one plus
\* one for every full spawn delay of time spent playing; and a step of a
\* run creates at most one pair, in a frame.
C10_SpawnSchedule ==
    /\ [](scene.state = "ready"
            => \A centerY \in CenterYs :
                 LET f == handleFlap(scene, centerY)
                 IN  /\ f.state = "playing"
                     /\ f.spawned = 1 /\ Len(f.pipes) = 2
                     /\ f.spawnTimer =
                          addEvent(difficultySettings[scene.difficulty].spawnDelay))
    /\ [](InRun(scene)
            => scene.spawned =
                 1 + (hist.playTime \div difficultySettings[scene.difficulty].spawnDelay))
    /\ [][ (InRun(scene) /\ InRun(scene') /\ scene'.spawned # scene.spawned)
            => /\ scene'.spawned = scene.spawned + 1
               /\ Len(scene'.pipes) <= Len(scene.pipes) + 2
               /\ IsFrameStep
               /\ scene.state = "playing" ]_vars

\* the third pair of a run that was paused by a life loss
C10_Witness ==
    /\ scene.state = "playing"
    /\ scene.lives < maxLives
    /\ scene.spawned = 3
    /\ hist.playTime >= 2 * scene.spawnDelay

---------------------------------------------------------------------------
(* C11 *)

\* the scene as a run begins: nothing of an earlier run is left
FreshRun(s) ==
    /\ s.state = "playing"
    /\ s.score = 0 /\ s.lives = maxLives /\ ~s.invulnerable
    /\ s.spawned = 1 /\ Len(s.pipes) = 2
    /\ \A i \in 1..Len(s.pipes) :
          /\ s.pipes[i].x = Px(gameWidth) + Px(spawnOffset)
          /\ ~s.pipes[i].scored
          /\ s.pipes[i].vx = s.pipeSpeed
    /\ s.spawnTimer = addEvent(s.spawnDelay)
    /\ ~s.blinkEvent.active /\ ~s.invulnerabilityTimer.active
    /\ s.stale = <<>>

\* C11: a flap in gameover (pointer, SPACE or the page's touch listener)
\* leaves, in that one step, state playing, score 0, lives 3, invulnerable
\* false, no obstacle but one new pair at the spawn position, and no pending
\* timer but one spawn timer with nothing elapsed.
C11_GameoverFlapStartsFreshRun ==
    /\ [](scene.state = "gameover"
            => \A centerY \in CenterYs :
                 /\ FreshRun(handleFlap(scene, centerY))
                 /\ FreshRun(triggerFlapFromUI(scene, centerY)))
    /\ [][ (scene.state = "gameover" /\ (Flap \/ TouchFlap))
            => FreshRun(scene') ]_vars

\* a finished run that scored and left two pairs behind, and the flap on it
C11_Witness ==
    /\ scene.state = "gameover"
    /\ scene.score >= 1 /\ Len(scene.pipes) >= 4
    /\ \A centerY \in CenterYs :
          LET f == handleFlap(scene, centerY)
          IN  f.state = "playing" /\ f.score = 0 /\ Len(f.pipes) = 2

---------------------------------------------------------------------------
(* C12 *)

Edges ==
    { <<"ready", "playing">>, <<"playing", "resuming">>,
      <<"resuming", "playing">>, <<"playing", "gameover">>,
      <<"gameover", "playing">>, <<"gameover", "ready">> }

\* C12: the state changes only along ready->playing, playing->resuming (a
\* collision with lives left), resuming->playing (the resume timer, in a
\* frame), playing->gameover (a collision on the last life),
\* gameover->playing and gameover->ready.
C12_StateEdges ==
    [][ scene'.state # scene.state
        => /\ <<scene.state, scene'.state>> \in Edges
           /\ scene'.state = "resuming" => IsCollisionStep /\ scene'.lives >= 1
           /\ scene'.state = "gameover" => IsCollisionStep /\ scene'.lives = 0
           /\ scene.state = "resuming" => IsFrameStep ]_vars

---------------------------------------------------------------------------
(* C13 *)

\* C13: best >= score in every state; no step lowers best; best changes
\* only in a frame that scores, to the new score; and resetScene,
\* setDifficulty and a flap (a new run) leave best as it is.
C13_BestIsRunningMax ==
    /\ [](/\ scene.best >= scene.score
          /\ resetScene(scene).best = scene.best
          /\ \A d \in Levels : setDifficulty(scene, d).best = scene.best
          /\ \A centerY \in CenterYs : handleFlap(scene, centerY).best = scene.best)
    /\ [][ /\ scene'.best >= scene.best
           /\ scene'.best # scene.best
                => /\ IsFrameStep
                   /\ scene'.score = scene.score + 1
                   /\ scene'.best = scene'.score ]_vars

\* a later run that has not caught up with the best of the session
C13_Witness ==
    /\ scene.state = "playing"
    /\ scene.score = 1
    /\ scene.best = 2

---------------------------------------------------------------------------
(* C14 *)

NoPendingTimer(s) ==
    /\ ~s.spawnTimer.active /\ ~s.blinkEvent.active
    /\ ~s.invulnerabilityTimer.active
    /\ s.stale = <<>>

\* C14: every pending timer is the one its field refers to (none is left
\* behind in the clock); resetScene, in whatever state it runs, leaves no
\* pending timer; a resume timer is pending only in the resuming it was
\* scheduled in, so its callback runs in no other state; and a pending
\* spawn timer is the one the current run started.
C14_NoStaleTimers ==
    /\ scene.stale = <<>>
    /\ NoPendingTimer(resetScene(scene))
    /\ \A d \in Levels \ {scene.difficulty} : NoPendingTimer(setDifficulty(scene, d))
    /\ scene.state = "ready" => NoPendingTimer(scene)
    /\ scene.invulnerabilityTimer.active
         => /\ scene.state = "resuming"
            /\ scene.invulnerabilityTimer.elapsed < resumeDelay
            /\ scene.lives = hist.entryLives
            /\ scene.score = hist.entryScore
    /\ scene.state # "resuming"
         => \A delta \in Deltas : ~OnceFires(scene.invulnerabilityTimer, delta)
    /\ scene.spawnTimer.active
         => /\ InRun(scene)
            /\ scene.spawnTimer.delay = scene.spawnDelay
            /\ scene.spawnTimer.elapsed = hist.playTime % scene.spawnDelay

\* a resuming scene with its three timers pending and time elapsed on each,
\* on which a difficulty change resets the scene
C14_Witness ==
    /\ scene.state = "resuming"
    /\ scene.spawnTimer.active /\ scene.spawnTimer.elapsed > 0
    /\ scene.blinkEvent.active
    /\ scene.invulnerabilityTimer.active /\ scene.invulnerabilityTimer.elapsed > 0
    /\ \E d \in Levels : setDifficulty(scene, d).state = "ready"

---------------------------------------------------------------------------
(* C15 *)

\* C15: 0 <= lives <= 3; lives = 0 exactly in gameover; lives = 3 in ready;
\* 1 <= lives <= 2 in resuming; and a collision on the last life goes to
\* gameover in that step.
C15_LivesInvariant ==
    /\ scene.lives \in 0..maxLives
    /\ scene.lives = 0 <=> scene.state = "gameover"
    /\ scene.state = "ready" => scene.lives = maxLives
    /\ scene.state = "resuming" => scene.lives \in 1..(maxLives - 1)
    /\ (scene.state = "playing" /\ ~scene.invulnerable /\ scene.lives = 1)
         => \A hit \in Hits(scene) :
               handleBirdCollision(scene, hit).state = "gameover"

\* the second life loss of a run
C15_Witness ==
    scene.state = "resuming" /\ scene.lives = 1

---------------------------------------------------------------------------
(* C16 *)

\* C16: in resuming and gameover every obstacle stands still; in playing
\* every obstacle moves at the speed of the selected difficulty.
C16_ObstacleMotionFollowsState ==
    /\ scene.state \in {"resuming", "gameover"}
         => \A i \in 1..Len(scene.pipes) : scene.pipes[i].vx = 0
    /\ scene.state = "playing"
         => \A i \in 1..Len(scene.pipes) :
               scene.pipes[i].vx = difficultySettings[scene.difficulty].speed

\* a run that lost a life to an obstacle and, playing again, has just
\* spawned a pair beside the older ones
C16_Witness ==
    /\ scene.state = "playing"
    /\ scene.birdX # birdStartX
    /\ Len(scene.pipes) >= 4
    /\ \E i \in 1..Len(scene.pipes) :
          scene.pipes[i].x > Px(gameWidth)

---------------------------------------------------------------------------
(* C17 *)

\* C17: a flap (pointer, SPACE or touch) in resuming leaves the scene as it
\* is; a flap in playing changes the bird's vertical velocity and nothing
\* else; and the scene a flap leaves has the impulse as its velocity
\* exactly when its state is playing.
C17_FlapGatedByState ==
    \A centerY \in CenterYs :
       LET f == handleFlap(scene, centerY)
       IN  /\ triggerFlapFromUI(scene, centerY) = f
           /\ scene.state = "resuming" => f = scene
           /\ scene.state = "playing"
                => f = [scene EXCEPT !.birdVy = flapVelocity]
           /\ f.birdVy = flapVelocity <=> f.state = "playing"

\* a flap taken in the run after a life loss
C17_Witness ==
    /\ scene.state = "playing"
    /\ scene.lives < maxLives
    /\ scene.birdVy = flapVelocity

---------------------------------------------------------------------------
(* C18 *)

\* the bird's and pipe i's horizontal extents share more than an edge
Intersects(s, i) ==
    LET pipe == s.pipes[i]
    IN  /\ pipe.x - (pipeDisplayWidth \div 2) < s.birdX + (birdDisplayWidth \div 2)
        /\ pipe.x + (pipeDisplayWidth \div 2) > s.birdX - (birdDisplayWidth \div 2)

\* C18: a collision with an obstacle that costs a life and leaves lives
\* (the first or the second of a run) places the bird where its horizontal
\* extent does not overlap the obstacle's.
C18_SnapClearOfObstacle ==
    [][ \A hit \in 1..Len(scene.pipes) :
          ( /\ scene.state = "playing" /\ ~scene.invulnerable
            /\ OverlapsX(scene, hit)
            /\ scene' = handleBirdCollision(scene, hit)
            /\ scene'.state = "resuming" )
          => ~Intersects(scene', hit) ]_vars

---------------------------------------------------------------------------
(* C19 *)

\* C19: the clock holds no spawn timer but the one the field refers to;
\* the scene has a spawn timer exactly in playing and resuming; and the
\* timer is paused exactly in resuming.
C19_SpawnTimer ==
    /\ \A i \in 1..Len(scene.stale) : scene.stale[i].kind # "spawn"
    /\ scene.spawnTimer.active <=> InRun(scene)
    /\ scene.spawnTimer.paused <=> scene.state = "resuming"

\* a paused spawn timer that keeps what had elapsed of its delay
C19_Witness ==
    /\ scene.state = "resuming"
    /\ scene.spawnTimer.paused
    /\ scene.spawnTimer.elapsed > 0
    /\ scene.spawned >= 2

---------------------------------------------------------------------------
(* C20 *)

\* C20: invulnerable, state = resuming, a pending resume timer and an
\* active blink timer are all true or all false; outside resuming the bird
\* is visible.
C20_InvulnerabilityFactsAgree ==
    /\ scene.invulnerable <=> scene.state = "resuming"
    /\ scene.invulnerabilityTimer.active <=> scene.state = "resuming"
    /\ scene.blinkEvent.active <=> scene.state = "resuming"
    /\ scene.state # "resuming" => scene.birdVisible

\* the blink timer has hidden the bird of a resuming scene
C20_Witness ==
    /\ scene.state = "resuming"
    /\ scene.invulnerable
    /\ ~scene.birdVisible

---------------------------------------------------------------------------
(* C21 *)

\* C21: in every state the difficulty is a level and gapSize, spawnDelay
\* and pipeSpeed are its settings; every pair of the group has its gap and
\* the pending spawn timer, if any, its delay; and the difficulty does not
\* change from one state of a run to the next.
C21_TunablesMatchDifficulty ==
    /\ [](/\ scene.difficulty \in Levels
          /\ TunablesOf(scene, scene.difficulty)
          /\ PairsOf(scene, scene.difficulty))
    /\ [][ (InRun(scene) /\ InRun(scene'))
            => scene'.difficulty = scene.difficulty ]_vars

\* a run on easy, selected after the scene was created on medium, with two
\* pairs and its spawn timer
C21_Witness ==
    /\ scene.difficulty = "easy"
    /\ scene.state = "playing"
    /\ scene.spawned >= 2 /\ Len(scene.pipes) >= 4
    /\ scene.spawnTimer.active /\ scene.spawnTimer.elapsed > 0

---------------------------------------------------------------------------
(* C22 *)

\* the scenes a press on the in-canvas button of level can leave: its two
\* listeners in either order
Pressed(s, level) ==
    { handleDifficultyButtonPress(handleFlap(s, centerY), level) :
          centerY \in CenterYs }
    \cup { handleFlap(handleDifficultyButtonPress(s, level), centerY) :
              centerY \in CenterYs }

\* C22: a press in ready or gameover on the in-canvas button of a level
\* that is not the selected one leaves, in whichever order its two
\* listeners run, that level selected and no run started: state ready, no
\* obstacle, no spawn timer.
C22_PressSelectsWithoutStarting ==
    [][ \A level \in Levels \ {scene.difficulty} :
          ( /\ scene.state \in {"ready", "gameover"}
            /\ PressDifficultyButton
            /\ scene' \in Pressed(scene, level) )
          => /\ scene'.difficulty = level
             /\ scene'.state = "ready"
             /\ scene'.pipes = <<>>
             /\ ~scene'.spawnTimer.active ]_vars

---------------------------------------------------------------------------
(* C23 *)

\* C23: once the scene is ready, the difficulty the page shows is the
\* difficulty of the scene.
C23_PageShowsSceneDifficulty ==
    app.activeScene => app.difficulty = scene.difficulty

===========================================================================
